---------------------------- MODULE Spec2Model ----------------------------
(***************************************************************************)
(* Model of the EspWifiReactTest application:                              *)
(*   - the BLE diagnostics screen  (src/app/(tabs)/diagnostics.tsx),       *)
(*   - the provisioning screen     (src/app/provision.tsx).                *)
(*                                                                         *)
(* Every asynchronous operation of the BLE library (promise, callback,     *)
(* timer) is modelled as a separate step of the environment: the handler   *)
(* that starts it records an "invocation" whose continuation fires later.  *)
(* Log entries are tuples <<tag, args...>>; their time stamp is left out.  *)
(***************************************************************************)
EXTENDS Integers, Sequences, FiniteSets, TLC

(***************************************************************************)
(* Bounds of the model.                                                    *)
(***************************************************************************)
MaxServices == 2      \* services in the GATT table of the peripheral
MaxValidateRuns == 1  \* invocations of Step 7 in one behaviour

(***************************************************************************)
(* UUID strings.  A string is a sequence of one-character strings so that  *)
(* String.prototype.toUpperCase can be modelled character by character.    *)
(***************************************************************************)
UpperChar(c) ==
    CASE c = "a" -> "A" [] c = "b" -> "B" [] c = "c" -> "C"
      [] c = "d" -> "D" [] c = "e" -> "E" [] c = "f" -> "F"
      [] OTHER -> c

toUpperCase(s) == [i \in DOMAIN s |-> UpperChar(s[i])]

LowerChar(c) ==
    CASE c = "A" -> "a" [] c = "B" -> "b" [] c = "C" -> "c"
      [] c = "D" -> "d" [] c = "E" -> "e" [] c = "F" -> "f"
      [] OTHER -> c

\* the spelling a peripheral stack may report: the same UUID in lower case
toLowerCase(s) == [i \in DOMAIN s |-> LowerChar(s[i])]

SERVICE_UUID ==
    <<"0","0","0","0","F","F","E","0","-","0","0","0","0","-","1","0","0","0","-",
      "8","0","0","0","-","0","0","8","0","5","F","9","B","3","4","F","B">>
STATUS_CHAR_UUID ==
    <<"0","0","0","0","F","F","E","1","-","0","0","0","0","-","1","0","0","0","-",
      "8","0","0","0","-","0","0","8","0","5","F","9","B","3","4","F","B">>
COMMAND_CHAR_UUID ==
    <<"0","0","0","0","F","F","E","2","-","0","0","0","0","-","1","0","0","0","-",
      "8","0","0","0","-","0","0","8","0","5","F","9","B","3","4","F","B">>
RESPONSE_CHAR_UUID ==
    <<"0","0","0","0","F","F","E","3","-","0","0","0","0","-","1","0","0","0","-",
      "8","0","0","0","-","0","0","8","0","5","F","9","B","3","4","F","B">>

\* UUIDs of a peripheral that are none of the four above
OtherServiceUuid ==
    <<"0","0","0","0","1","8","0","0","-","0","0","0","0","-","1","0","0","0","-",
      "8","0","0","0","-","0","0","8","0","5","f","9","b","3","4","f","b">>
OtherCharUuid ==
    <<"0","0","0","0","f","f","e","4","-","0","0","0","0","-","1","0","0","0","-",
      "8","0","0","0","-","0","0","8","0","5","f","9","b","3","4","f","b">>

(***************************************************************************)
(* The GATT tables a peripheral may expose: a sequence of services, each a *)
(* UUID with a sequence of characteristic UUIDs.  Spellings are mixed so   *)
(* that the comparisons of Step 7 are exercised in both cases.             *)
(***************************************************************************)
CharPool ==
    <<toLowerCase(STATUS_CHAR_UUID), OtherCharUuid, COMMAND_CHAR_UUID,
      RESPONSE_CHAR_UUID>>

RECURSIVE PickChars(_, _)
\* the characteristics of CharPool whose index is in S, in pool order
PickChars(S, i) ==
    IF i > Len(CharPool) THEN <<>>
    ELSE (IF i \in S THEN <<CharPool[i]>> ELSE <<>>) \o PickChars(S, i + 1)

CharLists == {PickChars(S, 1) : S \in SUBSET (1..Len(CharPool))}

ServicePool ==
    [uuid : {SERVICE_UUID, toLowerCase(SERVICE_UUID)}, chars : CharLists]
      \cup [uuid : {OtherServiceUuid}, chars : {PickChars(1..Len(CharPool), 1)}]

GattTables == UNION {[1..n -> ServicePool] : n \in 0..MaxServices}

(***************************************************************************)
(* Step 7, the pure part: runValidateChars, lines 389-428.                 *)
(***************************************************************************)
RECURSIVE FindFrom(_, _)
\* Array.prototype.find: index of the first service whose upper-cased UUID
\* equals the upper-cased SERVICE_UUID, 0 for undefined
FindFrom(services, i) ==
    IF i > Len(services) THEN 0
    ELSE IF toUpperCase(services[i].uuid) = toUpperCase(SERVICE_UUID) THEN i
    ELSE FindFrom(services, i + 1)

targetService(services) == FindFrom(services, 1)

charUUIDs(chars) == [i \in DOMAIN chars |-> toUpperCase(chars[i])]

includes(arr, x) == \E i \in DOMAIN arr : arr[i] = x

expected ==
    << [uuid |-> STATUS_CHAR_UUID, name |-> "Status (FFE1)"],
       [uuid |-> COMMAND_CHAR_UUID, name |-> "Command (FFE2)"],
       [uuid |-> RESPONSE_CHAR_UUID, name |-> "Response (FFE3)"] >>

found(chars, exp) == includes(charUUIDs(chars), toUpperCase(exp.uuid))

allFound_OnlyFirstTwo(chars) ==
    \A k \in 1..2 : found(chars, expected[k])

allFound(chars) == \A k \in DOMAIN expected : found(chars, expected[k])

expectedUUIDs == [k \in DOMAIN expected |-> toUpperCase(expected[k].uuid)]

extras(chars) ==
    SelectSeq(chars, LAMBDA c : ~includes(expectedUUIDs, toUpperCase(c)))

foundLogs(chars) ==
    [k \in DOMAIN expected |->
        <<(IF found(chars, expected[k]) THEN "FOUND" ELSE "MISSING"),
          expected[k].name>>]

extraLogs(chars) ==
    IF Len(extras(chars)) > 0
    THEN <<<<"Extra characteristics on this service:">>>>
           \o [i \in DOMAIN extras(chars) |-> <<"extra", extras(chars)[i]>>]
    ELSE <<>>

(***************************************************************************)
(* More bounds.                                                            *)
(***************************************************************************)
MaxHandles == 3         \* BleManager objects created in one behaviour
MaxDiagHandles == 2     \* of these, by the diagnostics screen
MaxChecks == 2          \* invocations of Step 2 that reach the state query
MaxAdapterChanges == 1  \* changes of the adapter state in one behaviour
MaxScans == 2           \* invocations of Steps 3 and 4 that start a scan
MaxScanErrors == 1      \* error callbacks one scan receives
MaxConnects == 2        \* invocations of Step 5 that reach connectToDevice
MaxCancels == 1         \* calls of cancelConnection
MaxDiscovers == 1       \* invocations of Step 6 that reach discovery
MaxLogLen == 3          \* length to which a precondition failure extends a log

(***************************************************************************)
(* Types of the screen state.                                              *)
(***************************************************************************)
StepKeys ==
    {"create", "state", "scan", "filteredScan", "connect", "discover", "validate"}
ScanKeys == {"scan", "filteredScan"}
StepStatus == {"pending", "running", "pass", "fail"}
State ==
    {"Unknown", "Resetting", "Unsupported", "Unauthorized", "PoweredOff", "PoweredOn"}

\* string | null: null is the empty sequence (no advertisement below is named "")
Null == <<>>
DEVICE_NAME_PREFIX == <<"E","S","P","3","2","-","W","i","F","i","-">>

startsWith(s, prefix) ==
    /\ Len(s) >= Len(prefix)
    /\ SubSeq(s, 1, Len(prefix)) = prefix

\* name?.startsWith(DEVICE_NAME_PREFIX): undefined (falsy) for a null name
isEsp(name) == name # Null /\ startsWith(name, DEVICE_NAME_PREFIX)

\* the advertisements the environment may deliver to a scan callback
Advertisements ==
    { [id |-> "AA", name |-> DEVICE_NAME_PREFIX \o <<"1">>, rssi |-> -40,
       serviceUUIDs |-> <<toLowerCase(SERVICE_UUID)>>],
      [id |-> "AA", name |-> DEVICE_NAME_PREFIX \o <<"1">>, rssi |-> -70,
       serviceUUIDs |-> <<toLowerCase(SERVICE_UUID)>>],
      [id |-> "BB", name |-> Null, rssi |-> -60, serviceUUIDs |-> Null] }

VARIABLES
    mounted,              \* diagnostics screen: "no", "yes", "gone" (unmounted)
    bleManagerRef,        \* 0 (null) or the index in handles
    connectedDeviceRef,   \* 0 (null) or the index in connects of the Device
    scanSubscriptionRef,  \* "null": the ref is declared and never assigned
    status,               \* the seven xxxStatus states, by step key
    logs,                 \* the seven xxxLogs states, by step key
    devices,              \* devices / filteredDevices, by scan step key
    bleState,             \* the displayed adapter state
    autoTimer,            \* the 500 ms timer of the mount effect
    checks,               \* invocations of Step 2
    scans,                \* invocations of Steps 3 and 4
    connects,             \* invocations of Step 5
    cancels,              \* calls of cancelConnection
    discovers,            \* invocations of Step 6
    validates,            \* invocations of Step 7
    unhandled,            \* promise rejections and throws that no handler took
    handles,              \* every BleManager created so far
    adapter,              \* the adapter state of the platform
    adapterChanges,       \* how often the adapter state changed
    gatt,                 \* the GATT table of the peripheral in range
    prov                  \* the provisioning screen

diagVars ==
    <<mounted, bleManagerRef, connectedDeviceRef, scanSubscriptionRef, status,
      logs, devices, bleState, autoTimer, checks, scans, connects, cancels,
      discovers, validates, unhandled>>
envVars == <<handles, adapter, adapterChanges, gatt>>
vars == <<diagVars, envVars, prov>>

(***************************************************************************)
(* React state setters: an update of an unmounted component is dropped.    *)
(***************************************************************************)
setStatus(st, k, v) == IF mounted = "yes" THEN [st EXCEPT ![k] = v] ELSE st
setLogs(lg, k, v) == IF mounted = "yes" THEN [lg EXCEPT ![k] = v] ELSE lg
addLog(lg, k, entry) ==
    IF mounted = "yes" THEN [lg EXCEPT ![k] = Append(@, entry)] ELSE lg
addLogs(lg, k, entries) ==
    IF mounted = "yes" THEN [lg EXCEPT ![k] = @ \o entries] ELSE lg

(***************************************************************************)
(* The BLE library: BleManager objects.                                    *)
(***************************************************************************)
HandleIds == 1..Len(handles)

\* new BleManager(): a handle is alive from creation to the end of destroy()
newBleManager(hs, who) ==
    Append(hs, [owner |-> who, st |-> "alive", listener |-> 0, destroys |-> 0])

\* manager.destroy() without awaiting it: teardown is started
destroy(hs, h) ==
    [hs EXCEPT ![h].st = IF @ = "alive" THEN "destroying" ELSE @,
               ![h].destroys = @ + 1]

Live(h) == handles[h].st \in {"alive", "destroying"}

\* the native teardown of a manager finishes; its scan listener is gone
DestroyComplete(h) ==
    /\ handles[h].st = "destroying"
    /\ handles' = [handles EXCEPT ![h].st = "destroyed", ![h].listener = 0]
    /\ UNCHANGED <<diagVars, adapter, adapterChanges, gatt, prov>>

(***************************************************************************)
(* Step 1: runCreateManager, lines 131-151.  With the state updates of one *)
(* handler batched, setCreateLogs([]) wipes the "already exists" line.     *)
(***************************************************************************)
\* lines 132-136: the prior handle, if any, gets destroy() and is forgotten
destroyPrior(hs) == IF bleManagerRef # 0 THEN destroy(hs, bleManagerRef) ELSE hs

createManagerBody(ok) ==
    /\ Len(handles) < MaxHandles
    /\ Cardinality({h \in HandleIds : handles[h].owner = "diag"}) < MaxDiagHandles
    /\ IF ok
       THEN /\ handles' = newBleManager(destroyPrior(handles), "diag")
            /\ bleManagerRef' = Len(handles) + 1
            /\ logs' = [logs EXCEPT !["create"] =
                            <<<<"Creating new BleManager()...">>,
                              <<"BleManager created successfully">>>>]
            /\ status' = [status EXCEPT !["create"] = "pass"]
       ELSE /\ handles' = destroyPrior(handles)
            /\ bleManagerRef' = 0
            /\ logs' = [logs EXCEPT !["create"] =
                            <<<<"Creating new BleManager()...">>, <<"FAILED">>>>]
            /\ status' = [status EXCEPT !["create"] = "fail"]

\* the "Create / Recreate" button
runCreateManager(ok) ==
    /\ mounted = "yes"
    /\ createManagerBody(ok)
    /\ UNCHANGED <<mounted, connectedDeviceRef, scanSubscriptionRef, devices,
                   bleState, autoTimer, checks, scans, connects, cancels,
                   discovers, validates, unhandled, adapter, adapterChanges,
                   gatt, prov>>

\* the mount effects, lines 118-128 and 436-442: Step 1 runs at once and
\* Step 2 is scheduled 500 ms later
Mount(ok) ==
    /\ mounted = "no"
    /\ mounted' = "yes"
    /\ createManagerBody(ok)
    /\ autoTimer' = "armed"
    /\ UNCHANGED <<connectedDeviceRef, scanSubscriptionRef, devices, bleState,
                   checks, scans, connects, cancels, discovers, validates,
                   unhandled, adapter, adapterChanges, gatt, prov>>

\* the effect cleanups on unmount, lines 119-127 and 440
Unmount ==
    /\ mounted = "yes"
    /\ mounted' = "gone"
    \* scanSubscriptionRef.current?.remove(): the ref is null, nothing happens
    /\ cancels' = IF connectedDeviceRef # 0
                  THEN Append(cancels, [conn |-> connectedDeviceRef,
                                        src |-> "cleanup", pc |-> "pending"])
                  ELSE cancels
    /\ handles' = IF bleManagerRef # 0 THEN destroy(handles, bleManagerRef)
                  ELSE handles
    /\ autoTimer' = IF autoTimer = "armed" THEN "cleared" ELSE autoTimer
    /\ UNCHANGED <<bleManagerRef, connectedDeviceRef, scanSubscriptionRef,
                   status, logs, devices, bleState, checks, scans, connects,
                   discovers, validates, unhandled, adapter, adapterChanges,
                   gatt, prov>>

(***************************************************************************)
(* The adapter state of the platform and its state-change subscriptions.   *)
(***************************************************************************)
\* the notification queues of the Step 2 subscriptions after a change to s
notifyChecks(cs, s) ==
    [i \in DOMAIN cs |->
        IF cs[i].sub = "active" /\ Live(cs[i].mgr)
        THEN [cs[i] EXCEPT !.queue = Append(@, s)] ELSE cs[i]]

(***************************************************************************)
(* Step 2: runCheckState, lines 154-193.  `captured` is the stateStatus of *)
(* the render whose closure runs: the timeout callback reads that value.   *)
(***************************************************************************)
checkStateBody(captured) ==
    IF bleManagerRef = 0
    THEN /\ Len(logs["state"]) < MaxLogLen
         /\ logs' = addLog(logs, "state", <<"ERROR: No BleManager">>)
         /\ status' = setStatus(status, "state", "fail")
         /\ UNCHANGED checks
    ELSE /\ Len(checks) < MaxChecks
         /\ status' = setStatus(status, "state", "running")
         /\ logs' = setLogs(logs, "state", <<<<"Checking BLE adapter state...">>>>)
         /\ checks' = Append(checks,
                [mgr |-> bleManagerRef, captured |-> captured, pc |-> "query",
                 sub |-> "none", removes |-> 0, queue |-> <<>>,
                 timer |-> "none"])

\* the "Re-check State" button: the closure of the latest render
runCheckState ==
    /\ mounted = "yes"
    /\ checkStateBody(status["state"])
    /\ UNCHANGED <<mounted, bleManagerRef, connectedDeviceRef,
                   scanSubscriptionRef, devices, bleState, autoTimer, scans,
                   connects, cancels, discovers, validates, unhandled,
                   envVars, prov>>

\* the 500 ms timer of the mount effect: the closure of the first render,
\* whose stateStatus is the initial 'pending'
AutoCheckState ==
    /\ autoTimer = "armed"
    /\ autoTimer' = "fired"
    /\ checkStateBody("pending")
    /\ UNCHANGED <<mounted, bleManagerRef, connectedDeviceRef,
                   scanSubscriptionRef, devices, bleState, scans, connects,
                   cancels, discovers, validates, unhandled, envVars, prov>>

\* as isPoweredOn, had the comparison never succeeded
isPoweredOn_Never(state) == FALSE

\* lines 170 and 177, `state === State.PoweredOn`
isPoweredOn(state) == state = "PoweredOn"

\* manager.state() resolves, lines 166-192
StateResolve(i) ==
    /\ checks[i].pc = "query"
    /\ Live(checks[i].mgr)
    /\ bleState' = IF mounted = "yes" THEN adapter ELSE bleState
    /\ IF isPoweredOn(adapter)
       THEN /\ logs' = addLog(logs, "state", <<"Current state", adapter>>)
            /\ status' = setStatus(status, "state", "pass")
            /\ checks' = [checks EXCEPT ![i].pc = "done"]
       ELSE /\ logs' = addLogs(logs, "state",
                          <<<<"Current state", adapter>>,
                            <<"Waiting for state change", adapter>>>>)
            /\ status' = status
            \* onStateChange(listener, true): the current state is emitted first
            /\ checks' = [checks EXCEPT ![i].pc = "wait", ![i].sub = "active",
                                        ![i].queue = <<adapter>>,
                                        ![i].timer = "armed"]
    /\ UNCHANGED <<mounted, bleManagerRef, connectedDeviceRef,
                   scanSubscriptionRef, devices, autoTimer, scans, connects,
                   cancels, discovers, validates, unhandled, envVars, prov>>

\* manager.state() rejects (the manager is being or has been destroyed):
\* the promise chain of line 166 has no catch
StateReject(i) ==
    /\ checks[i].pc = "query"
    /\ handles[checks[i].mgr].st # "alive"
    /\ checks' = [checks EXCEPT ![i].pc = "rejected"]
    /\ unhandled' = unhandled + 1
    /\ UNCHANGED <<mounted, bleManagerRef, connectedDeviceRef,
                   scanSubscriptionRef, status, logs, devices, bleState,
                   autoTimer, scans, connects, cancels, discovers, validates,
                   envVars, prov>>

\* sub.remove() of one invocation's subscription
subRemove(c) == [c EXCEPT !.sub = "removed", !.removes = @ + 1, !.queue = <<>>]

\* the onStateChange listener of invocation i runs, lines 174-181
StateChange(i) ==
    /\ checks[i].sub = "active"
    /\ checks[i].queue # <<>>
    /\ Live(checks[i].mgr)
    /\ LET newState == Head(checks[i].queue) IN
        /\ bleState' = IF mounted = "yes" THEN newState ELSE bleState
        /\ logs' = addLog(logs, "state", <<"State changed to", newState>>)
        /\ IF isPoweredOn(newState)
           THEN /\ status' = setStatus(status, "state", "pass")
                /\ checks' = [checks EXCEPT ![i] = subRemove(@)]
           ELSE /\ status' = status
                /\ checks' = [checks EXCEPT ![i].queue = Tail(@)]
    /\ UNCHANGED <<mounted, bleManagerRef, connectedDeviceRef,
                   scanSubscriptionRef, devices, autoTimer, scans, connects,
                   cancels, discovers, validates, unhandled, envVars, prov>>

\* the test of line 185 on the captured stateStatus
timeoutApplies(c) == c.captured = "running"

\* the 10 s timer of invocation i fires, lines 184-190
StateTimeout(i) ==
    /\ checks[i].timer = "armed"
    /\ IF timeoutApplies(checks[i])
       THEN /\ logs' = addLog(logs, "state", <<"Timed out waiting for PoweredOn">>)
            /\ status' = setStatus(status, "state", "fail")
            /\ checks' = [checks EXCEPT ![i] = [subRemove(@) EXCEPT !.timer = "fired"]]
       ELSE /\ checks' = [checks EXCEPT ![i].timer = "fired"]
            /\ UNCHANGED <<logs, status>>
    /\ UNCHANGED <<mounted, bleManagerRef, connectedDeviceRef,
                   scanSubscriptionRef, devices, bleState, autoTimer, scans,
                   connects, cancels, discovers, validates, unhandled, envVars,
                   prov>>

(***************************************************************************)
(* Steps 3 and 4: runUnfilteredScan, lines 196-246, and runFilteredScan,   *)
(* lines 249-296.  A manager has one scan listener: startDeviceScan        *)
(* installs the caller's callback in place of the previous one, and        *)
(* stopDeviceScan(), which names no scan, removes whichever is installed.  *)
(***************************************************************************)
Unnamed == <<"(","u","n","n","a","m","e","d",")">>
nameStr(name) == IF name = Null THEN Unnamed ELSE name

\* the `seen` Map of one invocation, in insertion order
has(seen, id) == \E k \in DOMAIN seen : seen[k].id = id

ids(list) == {list[k].id : k \in DOMAIN list}

espCount(seen) == Cardinality({k \in DOMAIN seen : isEsp(seen[k].name)})

\* what the platform delivers to a scan started with the filter of `step`
passesFilter(step, ad) ==
    \/ step = "scan"
    \/ /\ ad.serviceUUIDs # Null
       /\ \E k \in DOMAIN ad.serviceUUIDs :
              toUpperCase(ad.serviceUUIDs[k]) = toUpperCase(SERVICE_UUID)

\* manager.stopDeviceScan() called by the timer of scan i: the scan whose
\* listener is installed, if any, is stopped and remembers who stopped it
stopDeviceScan(ss, i) ==
    LET hit == handles[ss[i].mgr].listener IN
    IF hit = 0 THEN ss ELSE [ss EXCEPT ![hit].stoppedBy = Append(@, i)]

\* the "Start Scan" / "Start Filtered Scan" button, disabled while running
runScan(step) ==
    /\ mounted = "yes"
    /\ status[step] # "running"
    /\ IF bleManagerRef = 0
       THEN /\ Len(logs[step]) < MaxLogLen
            /\ logs' = addLog(logs, step, <<"ERROR: No BleManager">>)
            /\ status' = setStatus(status, step, "fail")
            /\ UNCHANGED <<devices, scans, handles>>
       ELSE /\ Len(scans) < MaxScans
            /\ status' = setStatus(status, step, "running")
            /\ logs' = setLogs(logs, step, <<<<"Starting scan for 10 seconds...">>>>)
            /\ devices' = [devices EXCEPT ![step] = <<>>]
            /\ scans' = Append(scans,
                   [step |-> step, mgr |-> bleManagerRef, seen |-> <<>>,
                    delivered |-> {}, errors |-> 0, timer |-> "armed",
                    stoppedBy |-> <<>>, reported |-> -1, shown |-> <<>>,
                    shownValid |-> FALSE])
            /\ handles' = [handles EXCEPT ![bleManagerRef].listener = Len(scans) + 1]
    /\ UNCHANGED <<mounted, bleManagerRef, connectedDeviceRef,
                   scanSubscriptionRef, bleState, autoTimer, checks, connects,
                   cancels, discovers, validates, unhandled, adapter,
                   adapterChanges, gatt, prov>>

Listening(i) == handles[scans[i].mgr].listener = i /\ Live(scans[i].mgr)

\* the scan callback runs with a device, lines 218-234 and 274-287
ScanDevice(i, ad) ==
    /\ Listening(i)
    /\ passesFilter(scans[i].step, ad)
    /\ LET step == scans[i].step
           entry == [id |-> ad.id, name |-> ad.name, rssi |-> ad.rssi,
                     serviceUUIDs |-> ad.serviceUUIDs]
           seen == IF has(scans[i].seen, ad.id) THEN scans[i].seen
                   ELSE Append(scans[i].seen, entry)
       IN /\ scans' = [scans EXCEPT ![i].seen = seen,
                                    ![i].delivered = @ \cup {ad.id}]
          /\ IF has(scans[i].seen, ad.id)
             THEN UNCHANGED <<devices, logs>>
             ELSE /\ devices' = IF mounted = "yes"
                                THEN [devices EXCEPT ![step] = seen] ELSE devices
                  /\ logs' = addLog(logs, step,
                         IF step = "scan"
                         THEN <<"Found", nameStr(ad.name), ad.id, ad.rssi, isEsp(ad.name)>>
                         ELSE <<"Found", nameStr(ad.name), ad.id, ad.rssi>>)
    /\ UNCHANGED <<mounted, bleManagerRef, connectedDeviceRef,
                   scanSubscriptionRef, status, bleState, autoTimer, checks,
                   connects, cancels, discovers, validates, unhandled, envVars,
                   prov>>

\* the scan callback runs with an error, lines 212-216 and 268-272
ScanError(i) ==
    /\ Listening(i)
    /\ scans[i].errors < MaxScanErrors
    /\ scans' = [scans EXCEPT ![i].errors = @ + 1]
    /\ logs' = addLog(logs, scans[i].step, <<"Scan error">>)
    /\ status' = setStatus(status, scans[i].step, "fail")
    /\ UNCHANGED <<mounted, bleManagerRef, connectedDeviceRef,
                   scanSubscriptionRef, devices, bleState, autoTimer, checks,
                   connects, cancels, discovers, validates, unhandled, envVars,
                   prov>>

\* as scanVerdict, had the window always ended Pass
scanVerdict_AlwaysPass(size) == "pass"

\* lines 244 and 294, `seen.size > 0 ? 'pass' : 'fail'`
scanVerdict(size) == IF size > 0 THEN "pass" ELSE "fail"

\* the 10 s timer of scan i fires, lines 237-245 and 291-295
ScanTimer(i) ==
    /\ scans[i].timer = "armed"
    /\ LET step == scans[i].step
           n == Len(scans[i].seen)
       IN /\ scans' = [stopDeviceScan(scans, i) EXCEPT
                          ![i].timer = "fired", ![i].reported = n,
                          ![i].shown = devices[step],
                          ![i].shownValid = (mounted = "yes")]
          /\ handles' = [handles EXCEPT ![scans[i].mgr].listener = 0]
          /\ logs' = addLogs(logs, step,
                 IF step = "scan"
                 THEN <<<<"Scan complete. Found", n>>,
                        <<"ESP32 devices", espCount(scans[i].seen)>>>>
                 ELSE <<<<"Filtered scan complete. Found", n>>>>)
          /\ status' = setStatus(status, step, scanVerdict(n))
    /\ UNCHANGED <<mounted, bleManagerRef, connectedDeviceRef,
                   scanSubscriptionRef, devices, bleState, autoTimer, checks,
                   connects, cancels, discovers, validates, unhandled, adapter,
                   adapterChanges, gatt, prov>>

(***************************************************************************)
(* Step 5: runConnect, lines 299-333.                                      *)
(***************************************************************************)
\* connected.mtu: what the platform negotiated of the 517 bytes requested
NegotiatedMtus == {185}

\* a tap on entry k of the device list of a scan step
runConnect(step, k) ==
    /\ mounted = "yes"
    /\ k \in DOMAIN devices[step]
    /\ IF bleManagerRef = 0
       THEN /\ Len(logs["connect"]) < MaxLogLen
            /\ logs' = addLog(logs, "connect", <<"ERROR: No BleManager">>)
            /\ status' = setStatus(status, "connect", "fail")
            /\ UNCHANGED connects
       ELSE /\ Len(connects) < MaxConnects
            /\ status' = setStatus(status, "connect", "running")
            /\ logs' = setLogs(logs, "connect",
                          <<<<"Connecting to", devices[step][k].id>>>>)
            /\ connects' = Append(connects,
                   [dev |-> devices[step][k].id, mgr |-> bleManagerRef,
                    pc |-> "connecting"])
    /\ UNCHANGED <<mounted, bleManagerRef, connectedDeviceRef,
                   scanSubscriptionRef, devices, bleState, autoTimer, checks,
                   scans, cancels, discovers, validates, unhandled, envVars,
                   prov>>

\* connectToDevice resolves, lines 317-323
ConnectResolve(i, mtu) ==
    /\ connects[i].pc = "connecting"
    /\ Live(connects[i].mgr)
    /\ connects' = [connects EXCEPT ![i].pc = "open"]
    /\ connectedDeviceRef' = i
    /\ logs' = addLogs(logs, "connect",
           <<<<"Connected! MTU", mtu>>, <<"Device ID", connects[i].dev>>,
             <<"Device name">>>>)
    /\ status' = setStatus(status, "connect", "pass")
    /\ UNCHANGED <<mounted, bleManagerRef, scanSubscriptionRef, devices,
                   bleState, autoTimer, checks, scans, cancels, discovers,
                   validates, unhandled, envVars, prov>>

\* connectToDevice rejects (an error or the 10 s timeout), lines 324-330
ConnectReject(i, hasCode) ==
    /\ connects[i].pc = "connecting"
    /\ connects' = [connects EXCEPT ![i].pc = "failed"]
    /\ logs' = addLogs(logs, "connect",
           <<<<"Connection FAILED">>>>
             \o (IF hasCode THEN <<<<"Error code">>>> ELSE <<>>))
    /\ status' = setStatus(status, "connect", "fail")
    /\ UNCHANGED <<mounted, bleManagerRef, connectedDeviceRef,
                   scanSubscriptionRef, devices, bleState, autoTimer, checks,
                   scans, cancels, discovers, validates, unhandled, envVars,
                   prov>>

(***************************************************************************)
(* Disconnect, lines 619-637, and the cancelConnection calls.              *)
(***************************************************************************)
\* line 618, `connectStatus === 'pass' &&`
disconnectAvailable == status["connect"] = "pass"

\* the Disconnect button, rendered while connectStatus is 'pass'
Disconnect ==
    /\ mounted = "yes"
    /\ disconnectAvailable
    /\ Len(cancels) < MaxCancels
    /\ cancels' = Append(cancels, [conn |-> connectedDeviceRef,
                                   src |-> "button", pc |-> "pending"])
    /\ UNCHANGED <<mounted, bleManagerRef, connectedDeviceRef,
                   scanSubscriptionRef, status, logs, devices, bleState,
                   autoTimer, checks, scans, connects, discovers, validates,
                   unhandled, envVars, prov>>

\* as resetAfterCancel, had the reset taken the scan step with it
resetAfterCancel_AlsoScan ==
    /\ connectedDeviceRef' = 0
    /\ status' = [k \in StepKeys |->
                    IF k \in {"scan", "connect", "discover", "validate"}
                    THEN "pending" ELSE status[k]]
    /\ logs' = [k \in StepKeys |->
                  IF k \in {"scan", "connect", "discover", "validate"}
                  THEN <<>> ELSE logs[k]]

\* as resetAfterCancel, had the statuses and logs been left as they were
resetAfterCancel_RefOnly ==
    /\ connectedDeviceRef' = 0
    /\ UNCHANGED <<status, logs>>

\* lines 625-631: what follows the await when it did not throw
resetAfterCancel ==
    /\ connectedDeviceRef' = 0
    /\ status' = setStatus(setStatus(setStatus(status, "connect", "pending"),
                                     "discover", "pending"), "validate", "pending")
    /\ logs' = setLogs(setLogs(setLogs(logs, "connect", <<>>), "discover", <<>>),
                       "validate", <<>>)

\* cancelConnection resolves (or there was no device to cancel)
CancelResolve(j) ==
    /\ cancels[j].pc = "pending"
    /\ cancels' = [cancels EXCEPT ![j].pc = "resolved"]
    /\ connects' = IF cancels[j].conn # 0
                   THEN [connects EXCEPT ![cancels[j].conn].pc = "closed"]
                   ELSE connects
    /\ IF cancels[j].src = "button"
       THEN resetAfterCancel
       ELSE UNCHANGED <<connectedDeviceRef, status, logs>>
    /\ UNCHANGED <<mounted, bleManagerRef, scanSubscriptionRef, devices,
                   bleState, autoTimer, checks, scans, discovers, validates,
                   unhandled, envVars, prov>>

\* as catchCancel, had the reset been done in the catch block as well
catchCancel_Reset ==
    /\ resetAfterCancel
    /\ UNCHANGED unhandled

\* line 632, `catch {}`, and line 122, `.catch(() => {})`
catchCancel == UNCHANGED <<connectedDeviceRef, status, logs, unhandled>>

\* cancelConnection rejects
CancelReject(j) ==
    /\ cancels[j].pc = "pending"
    /\ cancels[j].conn # 0
    /\ cancels' = [cancels EXCEPT ![j].pc = "rejected"]
    /\ catchCancel
    /\ UNCHANGED <<mounted, bleManagerRef, scanSubscriptionRef, devices,
                   bleState, autoTimer, checks, scans, connects, discovers,
                   validates, envVars, prov>>

(***************************************************************************)
(* Step 6: runDiscoverServices, lines 336-373.  The capability flags of a  *)
(* characteristic are not part of the GATT tables modelled here, so a      *)
(* "Char" log line carries the UUID only.                                  *)
(***************************************************************************)
RECURSIVE serviceLogs(_, _)
serviceLogs(services, i) ==
    IF i > Len(services) THEN <<>>
    ELSE <<<<"Service", services[i].uuid>>>>
           \o [k \in DOMAIN services[i].chars |-> <<"Char", services[i].chars[k]>>]
           \o serviceLogs(services, i + 1)

\* as noDevice, had the handler not tested the reference
noDevice_Untested(device) == FALSE

\* line 338, `if (!device)`
noDevice(device) == device = 0

\* the handler, lines 337-346, up to its first await
discoverServicesBody ==
    /\ IF noDevice(connectedDeviceRef)
       THEN /\ Len(logs["discover"]) < MaxLogLen
            /\ logs' = addLog(logs, "discover", <<"ERROR: No connected device">>)
            /\ status' = setStatus(status, "discover", "fail")
            /\ UNCHANGED discovers
       ELSE /\ Len(discovers) < MaxDiscovers
            /\ status' = setStatus(status, "discover", "running")
            /\ logs' = setLogs(logs, "discover", <<<<"Discovering...">>>>)
            /\ discovers' = Append(discovers,
                   [conn |-> connectedDeviceRef, pc |-> "discovering"])
    /\ UNCHANGED <<mounted, bleManagerRef, connectedDeviceRef,
                   scanSubscriptionRef, devices, bleState, autoTimer, checks,
                   scans, connects, cancels, validates, unhandled, envVars,
                   prov>>

\* as discoverEnabled, had the button never been disabled
discoverEnabled_Always == TRUE

\* line 591, `disabled={connectStatus !== 'pass'}`
discoverEnabled == status["connect"] = "pass"

\* the "Discover Services" button, disabled unless connectStatus is 'pass'
runDiscoverServices ==
    /\ mounted = "yes"
    /\ discoverEnabled
    /\ discoverServicesBody

\* discovery and the enumeration of lines 349-366 complete
DiscoverResolve(i) ==
    /\ discovers[i].pc = "discovering"
    /\ discovers[i].conn # 0
    /\ connects[discovers[i].conn].pc = "open"
    /\ discovers' = [discovers EXCEPT ![i].pc = "done"]
    /\ logs' = addLogs(logs, "discover",
           <<<<"Found services", Len(gatt)>>>> \o serviceLogs(gatt, 1))
    /\ status' = setStatus(status, "discover", "pass")
    /\ UNCHANGED <<mounted, bleManagerRef, connectedDeviceRef,
                   scanSubscriptionRef, devices, bleState, autoTimer, checks,
                   scans, connects, cancels, validates, unhandled, envVars,
                   prov>>

\* one of the awaited calls of lines 349-356 rejects, lines 369-372
DiscoverReject(i) ==
    /\ discovers[i].pc = "discovering"
    /\ discovers' = [discovers EXCEPT ![i].pc = "failed"]
    /\ logs' = addLog(logs, "discover", <<"Discovery FAILED">>)
    /\ status' = setStatus(status, "discover", "fail")
    /\ UNCHANGED <<mounted, bleManagerRef, connectedDeviceRef,
                   scanSubscriptionRef, devices, bleState, autoTimer, checks,
                   scans, connects, cancels, validates, unhandled, envVars,
                   prov>>

(***************************************************************************)
(* Step 7: runValidateChars, lines 376-433.                                *)
(***************************************************************************)
\* line 610, `disabled={discoverStatus !== 'pass'}`
validateEnabled == status["discover"] = "pass"

\* the "Validate" button, disabled unless discoverStatus is 'pass'
runValidateChars ==
    /\ mounted = "yes"
    /\ validateEnabled
    /\ IF connectedDeviceRef = 0
       THEN /\ Len(logs["validate"]) < MaxLogLen
            /\ logs' = addLog(logs, "validate", <<"ERROR: No connected device">>)
            /\ status' = setStatus(status, "validate", "fail")
            /\ UNCHANGED validates
       ELSE /\ Len(validates) < MaxValidateRuns
            /\ status' = setStatus(status, "validate", "running")
            /\ logs' = setLogs(logs, "validate", <<<<"Looking for service">>>>)
            /\ validates' = Append(validates,
                   [conn |-> connectedDeviceRef, pc |-> "services",
                    target |-> 0, err |-> FALSE, result |-> "none"])
    /\ UNCHANGED <<mounted, bleManagerRef, connectedDeviceRef,
                   scanSubscriptionRef, devices, bleState, autoTimer, checks,
                   scans, connects, cancels, discovers, unhandled, envVars,
                   prov>>

\* device.services() resolves, lines 389-402
ValidateServices(i) ==
    /\ validates[i].pc = "services"
    /\ LET t == targetService(gatt) IN
       IF t = 0
       THEN /\ validates' = [validates EXCEPT ![i].pc = "done", ![i].result = "fail"]
            /\ logs' = addLogs(logs, "validate",
                   <<<<"Service NOT FOUND">>,
                     <<"Available services", [k \in DOMAIN gatt |-> gatt[k].uuid]>>>>)
            /\ status' = setStatus(status, "validate", "fail")
       ELSE /\ validates' = [validates EXCEPT ![i].pc = "chars", ![i].target = t]
            /\ logs' = addLog(logs, "validate",
                   <<"Service found! Checking characteristics...">>)
            /\ status' = status
    /\ UNCHANGED <<mounted, bleManagerRef, connectedDeviceRef,
                   scanSubscriptionRef, devices, bleState, autoTimer, checks,
                   scans, connects, cancels, discovers, unhandled, envVars,
                   prov>>

\* targetService.characteristics() resolves, lines 402-428
ValidateChars(i) ==
    /\ validates[i].pc = "chars"
    /\ LET chars == gatt[validates[i].target].chars
           verdict == IF allFound(chars) THEN "pass" ELSE "fail"
       IN /\ validates' = [validates EXCEPT ![i].pc = "done", ![i].result = verdict]
          /\ logs' = addLogs(logs, "validate", foundLogs(chars) \o extraLogs(chars))
          /\ status' = setStatus(status, "validate", verdict)
    /\ UNCHANGED <<mounted, bleManagerRef, connectedDeviceRef,
                   scanSubscriptionRef, devices, bleState, autoTimer, checks,
                   scans, connects, cancels, discovers, unhandled, envVars,
                   prov>>

\* device.services() or characteristics() rejects, lines 429-432
ValidateReject(i) ==
    /\ validates[i].pc \in {"services", "chars"}
    /\ validates' = [validates EXCEPT ![i].pc = "done", ![i].err = TRUE,
                                      ![i].result = "fail"]
    /\ logs' = addLog(logs, "validate", <<"Validation FAILED">>)
    /\ status' = setStatus(status, "validate", "fail")
    /\ UNCHANGED <<mounted, bleManagerRef, connectedDeviceRef,
                   scanSubscriptionRef, devices, bleState, autoTimer, checks,
                   scans, connects, cancels, discovers, unhandled, envVars,
                   prov>>

(***************************************************************************)
(* The provisioning screen: ProvisionScreen, provision.tsx lines 82-177.   *)
(* One visit of the screen is modelled.                                    *)
(***************************************************************************)
\* as BLE_STATE_MESSAGES, had PoweredOff had no message
BLE_STATE_MESSAGES_NoPoweredOff == {"Unsupported", "Unauthorized"}

BLE_STATE_MESSAGES == {"Unsupported", "Unauthorized", "PoweredOff"}

provClosed ==
    [screen |-> "closed", pc |-> "none", cancelled |-> FALSE,
     cleanupSet |-> FALSE, mgr |-> 0, sub |-> "none", subRemoves |-> 0,
     queue |-> <<>>, thens |-> 0, bleState |-> "Unknown", checking |-> TRUE,
     nav |-> 0]

\* lines 106-129: the temporary manager, its subscription, cleanupRef
createTemp(p) ==
    [p EXCEPT !.pc = "watching", !.mgr = Len(handles) + 1, !.sub = "active",
              !.queue = <<adapter>>, !.cleanupSet = TRUE]

\* the screen is pushed: the effect calls init(), which awaits the
\* permission request on Android 12+ and runs on at once elsewhere
ProvOpen(android) ==
    /\ prov.screen = "closed"
    /\ Len(handles) < MaxHandles
    /\ IF android
       THEN /\ prov' = [prov EXCEPT !.screen = "open", !.pc = "perm"]
            /\ UNCHANGED handles
       ELSE /\ prov' = createTemp([prov EXCEPT !.screen = "open"])
            /\ handles' = newBleManager(handles, "temp")
    /\ UNCHANGED <<diagVars, adapter, adapterChanges, gatt>>

\* PermissionsAndroid.requestMultiple resolves, lines 96-106
ProvPermDone ==
    /\ prov.pc = "perm"
    /\ IF prov.cancelled
       THEN /\ prov' = [prov EXCEPT !.pc = "idle"]
            /\ UNCHANGED handles
       ELSE /\ Len(handles) < MaxHandles
            /\ prov' = createTemp(prov)
            /\ handles' = newBleManager(handles, "temp")
    /\ UNCHANGED <<diagVars, adapter, adapterChanges, gatt>>

\* the onStateChange listener of the temporary manager, lines 108-123
ProvStateChange ==
    /\ prov.sub = "active"
    /\ prov.queue # <<>>
    /\ Live(prov.mgr)
    /\ LET s == Head(prov.queue) IN
       IF prov.cancelled
       THEN /\ prov' = [prov EXCEPT !.queue = Tail(@)]
            /\ UNCHANGED handles
       ELSE IF s \notin {"Unknown", "Resetting"}
       THEN /\ prov' = [prov EXCEPT !.bleState = s, !.sub = "removed",
                                    !.subRemoves = @ + 1, !.queue = <<>>,
                                    !.thens = @ + 1]
            /\ handles' = destroy(handles, prov.mgr)
       ELSE /\ prov' = [prov EXCEPT !.bleState = s, !.queue = Tail(@)]
            /\ UNCHANGED handles
    /\ UNCHANGED <<diagVars, adapter, adapterChanges, gatt>>

\* as ProvDestroyed, had setChecking(false) not waited for destroy() to resolve
ProvDestroyed_NoWait ==
    /\ prov.thens > 0
    /\ prov' = [prov EXCEPT !.thens = @ - 1,
                            !.checking = IF prov.cancelled THEN @ ELSE FALSE]
    /\ UNCHANGED <<diagVars, envVars>>

\* destroy().then(...) of lines 119-121 runs once teardown has completed
ProvDestroyed ==
    /\ prov.thens > 0
    /\ handles[prov.mgr].st = "destroyed"
    /\ prov' = [prov EXCEPT !.thens = @ - 1,
                            !.checking = IF prov.cancelled THEN @ ELSE FALSE]
    /\ UNCHANGED <<diagVars, envVars>>

\* lines 143-176: what the screen renders
navigatorRendered ==
    /\ prov.screen = "open"
    /\ ~prov.checking
    /\ prov.bleState \notin BLE_STATE_MESSAGES

\* lines 153-158: the "Bluetooth Unavailable" screen is what is rendered
unavailableRendered ==
    /\ prov.screen = "open"
    /\ ~prov.checking
    /\ prov.bleState \in BLE_STATE_MESSAGES

\* the rendered ProvisioningNavigator creates the library's own BleManager
\* (part_001 lines 32-33)
NavCreateManager ==
    /\ navigatorRendered
    /\ prov.nav = 0
    /\ Len(handles) < MaxHandles
    /\ prov' = [prov EXCEPT !.nav = Len(handles) + 1]
    /\ handles' = newBleManager(handles, "nav")
    /\ UNCHANGED <<diagVars, adapter, adapterChanges, gatt>>

\* the screen is popped: the effect cleanup of lines 135-138, and the
\* navigator, if rendered, destroys its manager
ProvClose ==
    /\ prov.screen = "open"
    /\ LET afterCleanup ==
               IF prov.cleanupSet THEN destroy(handles, prov.mgr) ELSE handles
       IN handles' = IF prov.nav # 0 THEN destroy(afterCleanup, prov.nav)
                     ELSE afterCleanup
    /\ prov' = [prov EXCEPT !.screen = "gone", !.cancelled = TRUE,
                            !.sub = IF prov.cleanupSet THEN "removed" ELSE @,
                            !.subRemoves = IF prov.cleanupSet THEN @ + 1 ELSE @,
                            !.queue = <<>>]
    /\ UNCHANGED <<diagVars, adapter, adapterChanges, gatt>>

\* the queue of the provisioning subscription after a change to s
notifyProv(p, s) ==
    IF p.sub = "active" /\ Live(p.mgr) THEN [p EXCEPT !.queue = Append(@, s)]
    ELSE p

\* the platform's adapter changes state; live subscriptions are notified
AdapterChange(s) ==
    /\ s # adapter
    /\ adapterChanges < MaxAdapterChanges
    /\ adapter' = s
    /\ adapterChanges' = adapterChanges + 1
    /\ checks' = notifyChecks(checks, s)
    /\ prov' = notifyProv(prov, s)
    /\ UNCHANGED <<mounted, bleManagerRef, connectedDeviceRef,
                   scanSubscriptionRef, status, logs, devices, bleState,
                   autoTimer, scans, connects, cancels, discovers, validates,
                   unhandled, handles, gatt>>

(***************************************************************************)
(* Initial state: nothing is mounted.  The environment fixes the adapter   *)
(* state and the GATT table of the peripheral in range.                    *)
(***************************************************************************)
InitialAdapter == {"Unknown", "PoweredOff", "PoweredOn"}

FullService ==
    [uuid |-> toLowerCase(SERVICE_UUID), chars |-> PickChars(1..Len(CharPool), 1)]
GattSamples ==
    { <<>>,
      <<FullService>>,
      <<[uuid |-> SERVICE_UUID,
         chars |-> <<toLowerCase(STATUS_CHAR_UUID), COMMAND_CHAR_UUID>>]>> }

InitScreens ==
    /\ mounted = "no"
    /\ bleManagerRef = 0
    /\ connectedDeviceRef = 0
    /\ scanSubscriptionRef = "null"
    /\ status = [k \in StepKeys |-> "pending"]
    /\ logs = [k \in StepKeys |-> <<>>]
    /\ devices = [k \in ScanKeys |-> <<>>]
    /\ bleState = "Unknown"
    /\ autoTimer = "none"
    /\ checks = <<>>
    /\ scans = <<>>
    /\ connects = <<>>
    /\ cancels = <<>>
    /\ discovers = <<>>
    /\ validates = <<>>
    /\ unhandled = 0
    /\ handles = <<>>
    /\ adapterChanges = 0
    /\ prov = provClosed

Init ==
    /\ InitScreens
    /\ adapter \in InitialAdapter
    /\ gatt \in GattSamples

(***************************************************************************)
(* Next-state relations: the handle life cycle, then one per group of      *)
(* steps, then the whole application.                                      *)
(***************************************************************************)
Lifecycle ==
    \/ \E ok \in BOOLEAN : Mount(ok)
    \/ \E ok \in BOOLEAN : runCreateManager(ok)
    \/ \E h \in HandleIds : DestroyComplete(h)
    \/ Unmount

StateStep ==
    \/ runCheckState
    \/ AutoCheckState
    \/ \E i \in DOMAIN checks : StateResolve(i)
    \/ \E i \in DOMAIN checks : StateReject(i)
    \/ \E i \in DOMAIN checks : StateChange(i)
    \/ \E i \in DOMAIN checks : StateTimeout(i)
    \/ \E s \in State : AdapterChange(s)

ScanStep ==
    \/ \E step \in ScanKeys : runScan(step)
    \/ \E i \in DOMAIN scans, ad \in Advertisements : ScanDevice(i, ad)
    \/ \E i \in DOMAIN scans : ScanError(i)
    \/ \E i \in DOMAIN scans : ScanTimer(i)

ConnectStep ==
    \/ \E step \in ScanKeys, k \in 1..Cardinality(Advertisements) : runConnect(step, k)
    \/ \E i \in DOMAIN connects, mtu \in NegotiatedMtus : ConnectResolve(i, mtu)
    \/ \E i \in DOMAIN connects, hasCode \in BOOLEAN : ConnectReject(i, hasCode)
    \/ Disconnect
    \/ \E j \in DOMAIN cancels : CancelResolve(j)
    \/ \E j \in DOMAIN cancels : CancelReject(j)
    \/ runDiscoverServices
    \/ \E i \in DOMAIN discovers : DiscoverResolve(i)
    \/ \E i \in DOMAIN discovers : DiscoverReject(i)

ValidateStep ==
    \/ runValidateChars
    \/ \E i \in DOMAIN validates : ValidateServices(i)
    \/ \E i \in DOMAIN validates : ValidateChars(i)
    \/ \E i \in DOMAIN validates : ValidateReject(i)

ProvStep ==
    \/ \E android \in BOOLEAN : ProvOpen(android)
    \/ ProvPermDone
    \/ ProvStateChange
    \/ ProvDestroyed
    \/ NavCreateManager
    \/ ProvClose

Next == Lifecycle \/ StateStep \/ ScanStep \/ ConnectStep \/ ValidateStep \/ ProvStep

Spec == Init /\ [][Next]_vars

\* Step 2 with the handle life cycle; no peripheral is involved
InitState == InitScreens /\ adapter \in InitialAdapter /\ gatt = <<>>
NextState == Lifecycle \/ StateStep
SpecState == InitState /\ [][NextState]_vars

\* Steps 3 and 4 with the handle life cycle; the adapter stays on and no
\* peripheral is connected
InitScan == InitScreens /\ adapter = "PoweredOn" /\ gatt = <<>>
NextScan == Lifecycle \/ ScanStep
SpecScan == InitScan /\ [][NextScan]_vars

\* the handles of the whole application
NextApp ==
    \/ Lifecycle
    \/ ProvStep
    \/ \E s \in State : AdapterChange(s)
SpecApp == InitState /\ [][NextApp]_vars

(***************************************************************************)
(* Steps 5 to 7 start from the state the screen is in once it has mounted  *)
(* with the adapter on (Steps 1 and 2 passed) and one unfiltered scan has  *)
(* listed the two devices in range.  ReachScanned below is the behaviour   *)
(* that leads there.                                                       *)
(***************************************************************************)
AdAA == CHOOSE ad \in Advertisements : ad.id = "AA" /\ ad.rssi = -40
AdBB == CHOOSE ad \in Advertisements : ad.id = "BB"

\* the snapshot, given what Steps 5 and 6 have done since the scan
Snapshot(ref, passed, connectLogs, discoverLogs, cs, ds) ==
    /\ mounted = "yes"
    /\ bleManagerRef = 1
    /\ connectedDeviceRef = ref
    /\ scanSubscriptionRef = "null"
    /\ status = [k \in StepKeys |->
                    IF k \in {"create", "state", "scan"} \cup passed
                    THEN "pass" ELSE "pending"]
    /\ logs = [k \in StepKeys |->
                 CASE k = "create" -> <<<<"Creating new BleManager()...">>,
                                        <<"BleManager created successfully">>>>
                   [] k = "state" -> <<<<"Checking BLE adapter state...">>,
                                       <<"Current state", "PoweredOn">>>>
                   [] k = "scan" -> <<<<"Starting scan for 10 seconds...">>,
                                      <<"Found", AdAA.name, "AA", -40, TRUE>>,
                                      <<"Found", Unnamed, "BB", -60, FALSE>>,
                                      <<"Scan complete. Found", 2>>,
                                      <<"ESP32 devices", 1>>>>
                   [] k = "connect" -> connectLogs
                   [] k = "discover" -> discoverLogs
                   [] OTHER -> <<>>]
    /\ devices = [k \in ScanKeys |-> IF k = "scan" THEN <<AdAA, AdBB>> ELSE <<>>]
    /\ bleState = "PoweredOn"
    /\ autoTimer = "fired"
    /\ checks = <<[mgr |-> 1, captured |-> "pending", pc |-> "done",
                   sub |-> "none", removes |-> 0, queue |-> <<>>,
                   timer |-> "none"]>>
    /\ scans = <<[step |-> "scan", mgr |-> 1, seen |-> <<AdAA, AdBB>>,
                  delivered |-> {"AA", "BB"}, errors |-> 0, timer |-> "fired",
                  stoppedBy |-> <<1>>, reported |-> 2, shown |-> <<AdAA, AdBB>>,
                  shownValid |-> TRUE]>>
    /\ connects = cs
    /\ cancels = <<>>
    /\ discovers = ds
    /\ validates = <<>>
    /\ unhandled = 0
    /\ handles = <<[owner |-> "diag", st |-> "alive", listener |-> 0,
                    destroys |-> 0]>>
    /\ adapter = "PoweredOn"
    /\ adapterChanges = 0
    /\ prov = provClosed

Scanned == Snapshot(0, {}, <<>>, <<>>, <<>>, <<>>)

\* Steps 1 to 4 together, to show that Scanned is a state of the program
SpecScanned == InitScan /\ [][Lifecycle \/ StateStep \/ ScanStep]_vars
ReachScanned == ~Scanned

InitConnect == Scanned /\ gatt \in GattSamples
NextConnect ==
    \/ ConnectStep
    \/ Unmount
    \/ \E h \in HandleIds : DestroyComplete(h)
SpecConnect == InitConnect /\ [][NextConnect]_vars

(***************************************************************************)
(* Step 7 is checked over every GATT table of GattTables, from the state   *)
(* that follows Scanned once device "AA" has been connected (Step 5) and   *)
(* its services discovered (Step 6).  ReachDiscovered is the behaviour     *)
(* that leads there.                                                       *)
(***************************************************************************)
Discovered ==
    Snapshot(1, {"connect", "discover"},
             <<<<"Connecting to", "AA">>, <<"Connected! MTU", 185>>,
               <<"Device ID", "AA">>, <<"Device name">>>>,
             <<<<"Discovering...">>, <<"Found services", Len(gatt)>>>>
               \o serviceLogs(gatt, 1),
             <<[dev |-> "AA", mgr |-> 1, pc |-> "open"]>>,
             <<[conn |-> 1, pc |-> "done"]>>)

ReachDiscovered == ~Discovered

InitValidate == gatt \in GattTables /\ Discovered
SpecValidate == InitValidate /\ [][ValidateStep]_vars

(***************************************************************************)
(* Claims about Step 7.                                                    *)
(***************************************************************************)
matchesService(s) == toUpperCase(s.uuid) = toUpperCase(SERVICE_UUID)

hasExpected(s) ==
    \A u \in {STATUS_CHAR_UUID, COMMAND_CHAR_UUID, RESPONSE_CHAR_UUID} :
        \E k \in DOMAIN s.chars : toUpperCase(s.chars[k]) = toUpperCase(u)

\* some service of the table matches the provisioning UUID and has all three
someServiceComplete(g) == \E k \in DOMAIN g : matchesService(g[k]) /\ hasExpected(g[k])

\* the first service of the table that matches the provisioning UUID has all three
firstServiceComplete(g) ==
    \E k \in DOMAIN g :
        /\ matchesService(g[k])
        /\ \A j \in 1..(k - 1) : ~matchesService(g[j])
        /\ hasExpected(g[k])

isExpectedChar(c) ==
    \E u \in {STATUS_CHAR_UUID, COMMAND_CHAR_UUID, RESPONSE_CHAR_UUID} :
        toUpperCase(c) = toUpperCase(u)

\* the table without / with characteristics other than the three expected
withoutExtras(g) ==
    [k \in DOMAIN g |-> [g[k] EXCEPT !.chars = SelectSeq(@, isExpectedChar)]]
withMoreExtras(g) ==
    [k \in DOMAIN g |-> [g[k] EXCEPT !.chars = <<OtherCharUuid>> \o @]]

validateEnds(i) ==
    /\ mounted = "yes"
    /\ validates[i].pc # "done"
    /\ validates'[i].pc = "done"

\* C1 as stated: a run of Step 7 whose enumeration calls resolve ends Pass
\* if and only if SOME service of the device matches the provisioning
\* service UUID (case-insensitively) and has the three expected
\* characteristics (case-insensitively).
C1_AnyMatchingService ==
    [][\A i \in DOMAIN validates :
          (validateEnds(i) /\ ~validates'[i].err) =>
              (status'["validate"] = "pass" <=> someServiceComplete(gatt))]_vars

\* C1 amended: Step 7 run with a recorded Connection ends Pass or Fail; it
\* ends Pass if and only if its enumeration calls resolve and the FIRST
\* service whose UUID matches the provisioning service UUID
\* (case-insensitively) has the three expected characteristics
\* (case-insensitively); removing or adding characteristics other than the
\* three expected ones does not change that outcome.
C1_FirstMatchingService ==
    [][\A i \in DOMAIN validates :
          validateEnds(i) =>
              /\ status'["validate"] \in {"pass", "fail"}
              /\ status'["validate"] = "pass"
                     <=> (~validates'[i].err /\ firstServiceComplete(gatt))
              /\ ~validates'[i].err =>
                   /\ status'["validate"] = "pass"
                          <=> firstServiceComplete(withoutExtras(gatt))
                   /\ status'["validate"] = "pass"
                          <=> firstServiceComplete(withMoreExtras(gatt))]_vars

\* C1 witness: Step 7 has ended Pass on a table whose first service is not
\* the provisioning service and whose second has the three expected
\* characteristics (the service UUID and one of them in lower case) and an extra
C1_Witness ==
    /\ Len(validates) = 1
    /\ validates[1].pc = "done"
    /\ status["validate"] = "pass"
    /\ Len(gatt) = 2
    /\ ~matchesService(gatt[1])
    /\ gatt[2].uuid = toLowerCase(SERVICE_UUID)
    /\ Len(gatt[2].chars) = 4

(***************************************************************************)
(* Claims about the scans of Steps 3 and 4.                                *)
(***************************************************************************)
\* C2: at the end of every scan window (the window's timer has fired while
\* the screen is mounted) the count logged as "Found N device(s)" and the
\* device list on display both equal the set of distinct identifiers that
\* were delivered to that window's callback: none twice, none dropped.
C2_WindowReportsDelivered ==
    \A i \in DOMAIN scans :
        (scans[i].timer = "fired" /\ scans[i].shownValid) =>
            /\ scans[i].reported = Cardinality(scans[i].delivered)
            /\ ids(scans[i].shown) = scans[i].delivered
            /\ Len(scans[i].shown) = Cardinality(scans[i].delivered)

\* C3: once the 10 s timer of a scan has fired, stop-scan has reached that
\* scan exactly once and it was that scan's own timer that issued it; and
\* at no time has a scan been stopped twice or by another scan's timer.
C3_StoppedOnceByOwnTimer ==
    \A i \in DOMAIN scans :
        /\ scans[i].timer = "fired" => scans[i].stoppedBy = <<i>>
        /\ \A k \in DOMAIN scans[i].stoppedBy : scans[i].stoppedBy[k] = i
        /\ Len(scans[i].stoppedBy) <= 1

(***************************************************************************)
(* Claims about the state-change subscriptions of Step 2.                  *)
(***************************************************************************)
\* C4: when the 10 s timer of an invocation of Step 2 fires while the
\* screen is mounted and that invocation's subscription is still waiting
\* (PoweredOn was not observed), the status of Step 2 becomes Fail, the
\* timeout message is logged and the subscription is released.
C4_TimeoutFailsAndReleases ==
    [][\A i \in DOMAIN checks :
          ( /\ mounted = "yes"
            /\ checks[i].sub = "active"
            /\ checks[i].timer = "armed"
            /\ checks'[i].timer = "fired" ) =>
              /\ status'["state"] = "fail"
              /\ Len(logs'["state"]) = Len(logs["state"]) + 1
              /\ logs'["state"][Len(logs'["state"])][1] = "Timed out waiting for PoweredOn"
              /\ checks'[i].sub = "removed"]_vars

\* the subscriptions of Step 2 that are registered with a live manager
activeSubs == {i \in DOMAIN checks : checks[i].sub = "active" /\ Live(checks[i].mgr)}

\* C5: at most one state-change subscription created by Step 2 is active.
C5_AtMostOneSubscription == Cardinality(activeSubs) <= 1

\* C6: a subscription of Step 2 is never released twice; it has been
\* released once its 10 s timer has fired; and it has been released once a
\* later invocation of Step 2 has got as far as subscribing itself.
C6_ReleasedExactlyOnce ==
    \A i \in DOMAIN checks :
        /\ checks[i].removes <= 1
        /\ checks[i].timer = "fired" => checks[i].removes = 1
        /\ \A j \in DOMAIN checks :
               (i < j /\ checks[i].sub # "none" /\ checks[j].sub # "none")
                   => checks[i].removes = 1

(***************************************************************************)
(* Claims about Disconnect.                                                *)
(***************************************************************************)
\* the cancelConnection call of a press of Disconnect settles in this step
disconnectSettles(j, how) ==
    /\ mounted = "yes"
    /\ cancels[j].src = "button"
    /\ cancels[j].pc = "pending"
    /\ cancels'[j].pc = how

stepsReset ==
    /\ connectedDeviceRef' = 0
    /\ \A k \in {"connect", "discover", "validate"} :
           status'[k] = "pending" /\ logs'[k] = <<>>

\* C7: when the cancel-connection operation of a Disconnect settles, by
\* success or by failure, Steps 5, 6 and 7 are Pending with empty logs and
\* no Connection is recorded.
C7_DisconnectAlwaysResets ==
    [][\A j \in DOMAIN cancels :
          (disconnectSettles(j, "resolved") \/ disconnectSettles(j, "rejected"))
              => stepsReset]_vars

\* C8: when the cancel-connection operation of a Disconnect fails, no step
\* status changes, nothing is logged and no error escapes the handler.
C8_CancelFailureAbsorbed ==
    [][\A j \in DOMAIN cancels :
          disconnectSettles(j, "rejected") =>
              /\ status' = status
              /\ logs' = logs
              /\ unhandled' = unhandled]_vars

\* C8 witness: a Disconnect whose cancel was rejected has left Step 5 Pass
\* with its log and the Connection still recorded
C8_Witness ==
    /\ mounted = "yes"
    /\ \E j \in DOMAIN cancels : cancels[j].src = "button" /\ cancels[j].pc = "rejected"
    /\ status["connect"] = "pass"
    /\ logs["connect"] # <<>>
    /\ connectedDeviceRef # 0
    /\ unhandled = 0

(***************************************************************************)
(* Claims about the BleManager handles.                                    *)
(***************************************************************************)
\* C9: at no instant are two handles created by the diagnostics screen
\* alive, a handle being alive from its creation until its destroy() has
\* completed.
C9_OneDiagnosticsHandle ==
    Cardinality({h \in HandleIds : handles[h].owner = "diag" /\ Live(h)}) <= 1

\* C10: across the diagnostics screen, the provisioning screen's temporary
\* manager and the navigator's manager, at most one BleManager is alive at
\* any instant (here even counting a manager as alive only until destroy()
\* is called on it).
C10_OneHandleInTheApplication ==
    Cardinality({h \in HandleIds : handles[h].st = "alive"}) <= 1

(***************************************************************************)
(* Claims about the provisioning screen.                                   *)
(***************************************************************************)
\* C11: `checking` becomes false only while the screen is still mounted and
\* only once destroy() of the temporary manager has completed; and the
\* navigator creates its manager only then.
C11_NavigatorAfterTeardown ==
    [][ /\ (prov.checking /\ ~prov'.checking) =>
              /\ prov.screen = "open"
              /\ ~prov.cancelled
              /\ prov.mgr # 0
              /\ handles[prov.mgr].st = "destroyed"
        /\ (prov.nav = 0 /\ prov'.nav # 0) =>
              /\ prov.screen = "open"
              /\ prov.mgr # 0
              /\ handles[prov.mgr].st = "destroyed" ]_vars

\* C11 witness: the navigator is on screen with its manager, the temporary
\* manager destroyed
C11_Witness ==
    /\ navigatorRendered
    /\ prov.nav # 0
    /\ handles[prov.nav].st = "alive"
    /\ handles[prov.mgr].st = "destroyed"

(***************************************************************************)
(* Claims about the Connection.                                            *)
(***************************************************************************)
\* the connections the validator has established and that are still up:
\* connectToDevice resolved, cancelConnection has not, the manager that
\* opened them is not torn down
liveConnections ==
    {i \in DOMAIN connects : connects[i].pc = "open" /\ Live(connects[i].mgr)}

\* C12: at no instant are connections to two devices live that the
\* validator established and has not cancelled.
C12_AtMostOneConnection ==
    Cardinality({connects[i].dev : i \in liveConnections}) <= 1

(***************************************************************************)
(* Claims about the statuses of the steps.                                 *)
(***************************************************************************)
\* the step is hit by the handler that (re-)triggers step k
triggers(k) ==
    CASE k = "create" -> \E ok \in BOOLEAN : Mount(ok) \/ runCreateManager(ok)
      [] k = "state" -> runCheckState \/ AutoCheckState
      [] k \in ScanKeys -> runScan(k)
      [] k = "connect" ->
           \E step \in ScanKeys, n \in 1..Cardinality(Advertisements) : runConnect(step, n)
      [] k = "discover" -> runDiscoverServices
      [] k = "validate" -> runValidateChars

\* C13: the status of a step changes only when the step is (re-)triggered,
\* or from Running to Pass or Fail, or, for Steps 5 to 7, to Pending when a
\* Disconnect completes; in particular a Pass or Fail is never turned into
\* the other by a callback or timer of an earlier run.
C13_StatusMonotone ==
    [][\A k \in StepKeys :
          status'[k] # status[k] =>
              \/ triggers(k)
              \/ status[k] = "running" /\ status'[k] \in {"pass", "fail"}
              \/ /\ k \in {"connect", "discover", "validate"}
                 /\ status'[k] = "pending"
                 /\ \E j \in DOMAIN cancels :
                        cancels[j].src = "button" /\ CancelResolve(j)]_vars

(***************************************************************************)
(* Steps 5 to 7 together, from the state after the scan.                   *)
(***************************************************************************)
NextSteps567 == NextConnect \/ ValidateStep
SpecSteps567 == InitConnect /\ [][NextSteps567]_vars

\* discovery has completed successfully on connection c
discoveredOn(c) ==
    \E i \in DOMAIN discovers : discovers[i].conn = c /\ discovers[i].pc = "done"

\* an invocation of Step 7 enters Running in this step
validateStarts == Len(validates') = Len(validates) + 1

\* C14: whenever Step 7 enters Running, Step 6 has completed successfully
\* on the Connection that is recorded at that moment.
C14_ValidateAfterDiscovery ==
    [][validateStarts => discoveredOn(connectedDeviceRef)]_vars

(***************************************************************************)
(* The handler of Step 6 called as a function.  On the screen its button   *)
(* is disabled unless connectStatus is 'pass', and connectStatus is 'pass' *)
(* only while a Connection is recorded, so the branch of lines 338-342 is  *)
(* not taken through the button; here the handler is called whatever the   *)
(* button shows.                                                           *)
(***************************************************************************)
callDiscoverServices ==
    /\ mounted = "yes"
    /\ discoverServicesBody

NextDiscoverCall == NextConnect \/ callDiscoverServices
SpecDiscoverCall == InitConnect /\ [][NextDiscoverCall]_vars

\* connectStatus is 'pass' only while a Connection is recorded
PassHasConnection ==
    (mounted = "yes" /\ status["connect"] = "pass") => connectedDeviceRef # 0

\* C15: the handler of Step 6 called with no Connection recorded sets the
\* status of Step 6 to Fail, appends the 'no connected device' line to its
\* log, starts no discovery, and raises nothing.
C15_DiscoverWithoutConnection ==
    [][(callDiscoverServices /\ connectedDeviceRef = 0) =>
          /\ status'["discover"] = "fail"
          /\ logs'["discover"] =
                 Append(logs["discover"], <<"ERROR: No connected device">>)
          /\ discovers' = discovers
          /\ unhandled' = unhandled]_vars

\* C15 witness: Step 6 is Fail with that line and no discovery was started
C15_Witness ==
    /\ connectedDeviceRef = 0
    /\ discovers = <<>>
    /\ status["discover"] = "fail"
    /\ logs["discover"] = <<<<"ERROR: No connected device">>>>
    /\ unhandled = 0

(***************************************************************************)
(* Claims about the outcome of the scans.                                  *)
(***************************************************************************)
\* the window of scan i ends in this step, the screen being mounted
windowEnds(i) ==
    /\ mounted = "yes"
    /\ scans[i].timer = "armed"
    /\ scans'[i].timer = "fired"

\* the "Found N device(s)" line of a step
foundLine(step, n) ==
    IF step = "scan" THEN <<"Scan complete. Found", n>>
    ELSE <<"Filtered scan complete. Found", n>>

\* C16: when the window of a scan of Step 3 or Step 4 ends, the status of
\* its step is Pass if at least one device was delivered to its callback
\* during the window and Fail otherwise, and the log of the step receives
\* the "Found N device(s)" line with N the number of devices delivered.
C16_PassIffDeviceSeen ==
    [][\A i \in DOMAIN scans :
          windowEnds(i) =>
              LET step == scans[i].step
                  n == Cardinality(scans[i].delivered)
              IN /\ status'[step] = (IF n > 0 THEN "pass" ELSE "fail")
                 /\ \E k \in DOMAIN logs'[step] :
                        /\ k > Len(logs[step])
                        /\ logs'[step][k] = foundLine(step, n)]_vars

\* C16 witness: a filtered scan has ended Fail with "Found 0 device(s)",
\* and an unfiltered one has ended Pass with two devices
C16_Witness ==
    /\ mounted = "yes"
    /\ \E i, j \in DOMAIN scans :
          /\ scans[i].step = "filteredScan" /\ scans[i].timer = "fired"
          /\ scans[i].delivered = {}
          /\ status["filteredScan"] = "fail"
          /\ logs["filteredScan"][Len(logs["filteredScan"])] = foundLine("filteredScan", 0)
          /\ scans[j].step = "scan" /\ scans[j].timer = "fired"
          /\ Cardinality(scans[j].delivered) = 2
          /\ status["scan"] = "pass"

\* scan i is the latest scan of its step: the step was not re-run since
latestOfStep(i) ==
    \A j \in DOMAIN scans : scans[j].step = scans[i].step => j <= i

\* C17: once the callback of a scan has reported an error, the Fail of its
\* step is final for that invocation: when the window's timer fires, the
\* step not having been re-run, the status is still Fail.
C17_ScanErrorIsFinal ==
    [][\A i \in DOMAIN scans :
          (windowEnds(i) /\ scans[i].errors > 0 /\ latestOfStep(i)) =>
              status'[scans[i].step] = "fail"]_vars

(***************************************************************************)
(* Claims about Step 5.                                                    *)
(***************************************************************************)
\* the connectToDevice call of invocation i settles in this step
connectSettles(i, how) ==
    /\ mounted = "yes"
    /\ connects[i].pc = "connecting"
    /\ connects'[i].pc = how

hasLine(log, tag) == \E k \in DOMAIN log : log[k][1] = tag

\* C18: when connectToDevice of an invocation of Step 5 resolves, the
\* Connection is recorded, the step is Pass and the MTU line is in its
\* log; when it rejects, the step is Fail, its log has the failure line
\* and no MTU line, and nothing escapes the handler.
C18_ConnectOutcome ==
    [][\A i \in DOMAIN connects :
          /\ connectSettles(i, "open") =>
                /\ connectedDeviceRef' = i
                /\ status'["connect"] = "pass"
                /\ hasLine(logs'["connect"], "Connected! MTU")
          /\ connectSettles(i, "failed") =>
                /\ status'["connect"] = "fail"
                /\ hasLine(logs'["connect"], "Connection FAILED")
                /\ ~hasLine(logs'["connect"], "Connected! MTU")
                /\ unhandled' = unhandled]_vars

(***************************************************************************)
(* Claims about errors.                                                    *)
(***************************************************************************)
\* C19: no rejection or exception of an operation a step calls is left
\* unhandled.
C19_NoUnhandledError == unhandled = 0

(***************************************************************************)
(* Claims about teardown.                                                  *)
(***************************************************************************)
\* C20: once the diagnostics screen has been unmounted, no scan of the
\* validator is still running and no scan or state timer of the validator
\* is left to fire.
C20_TeardownStopsEverything ==
    mounted = "gone" =>
        /\ \A i \in DOMAIN scans : ~Listening(i) /\ scans[i].timer # "armed"
        /\ \A i \in DOMAIN checks : checks[i].timer # "armed"

\* the cleanup effect of the diagnostics screen runs in this step
teardownRuns == mounted = "yes" /\ mounted' = "gone"

\* C21: teardown releases the scan, then cancels the recorded Connection,
\* then destroys the handle, whichever of them exist, and raises nothing:
\* when it has run no scan is left listening on the handle it destroyed, a
\* cancel has been issued for the Connection recorded and destroy() has
\* been called on the handle recorded.
C21_TeardownReleasesInOrder ==
    [][teardownRuns =>
          /\ \A i \in DOMAIN scans : Listening(i) => ~Listening(i)'
          /\ connectedDeviceRef # 0 =>
                 /\ Len(cancels') = Len(cancels) + 1
                 /\ cancels'[Len(cancels')].conn = connectedDeviceRef
          /\ bleManagerRef # 0 =>
                 handles'[bleManagerRef].destroys = handles[bleManagerRef].destroys + 1
          /\ unhandled' = unhandled]_vars

(***************************************************************************)
(* Claims about the gating of the interface.                               *)
(***************************************************************************)
\* the handler of Step 6 / Step 7 / Disconnect has run in this step
discoverTriggered ==
    \/ Len(discovers') = Len(discovers) + 1
    \/ logs'["discover"] = Append(logs["discover"], <<"ERROR: No connected device">>)
validateTriggered ==
    \/ Len(validates') = Len(validates) + 1
    \/ logs'["validate"] = Append(logs["validate"], <<"ERROR: No connected device">>)
disconnectPressed ==
    /\ Len(cancels') = Len(cancels) + 1
    /\ cancels'[Len(cancels')].src = "button"

\* C22: Step 6 is triggered only in states where Step 5 is Pass, Step 7
\* only where Step 6 is Pass, and Disconnect only where Step 5 is Pass.
C22_TriggersGated ==
    [][ /\ discoverTriggered => status["connect"] = "pass"
        /\ validateTriggered => status["discover"] = "pass"
        /\ disconnectPressed => status["connect"] = "pass" ]_vars

\* C22 witness: Step 6, Step 7 and Disconnect have each been triggered
C22_Witness ==
    /\ discovers # <<>>
    /\ validates # <<>>
    /\ \E j \in DOMAIN cancels : cancels[j].src = "button"

\* the adapter states for which the provisioning screen has a message
unavailableStates == {"Unsupported", "Unauthorized", "PoweredOff"}

\* C23: once the provisioning screen has recorded Unsupported,
\* Unauthorized or PoweredOff, that state stays recorded for the visit and
\* the navigator is never mounted; when the check is over the "Bluetooth
\* Unavailable" screen is what is shown; and the navigator is mounted only
\* with a definitive state recorded that is none of the three.
C23_UnavailableBlocksNavigator ==
    [][ /\ prov.bleState \in unavailableStates =>
              /\ prov'.bleState = prov.bleState
              /\ prov'.nav = 0
              /\ ~navigatorRendered'
              /\ (prov'.screen = "open" /\ ~prov'.checking) => unavailableRendered'
        /\ (prov.nav = 0 /\ prov'.nav # 0) =>
              prov.bleState \notin unavailableStates \cup {"Unknown", "Resetting"} ]_vars

\* C23 witness: the "Bluetooth Unavailable" screen is shown for PoweredOff
\* although the adapter has been switched on since
C23_Witness ==
    /\ unavailableRendered
    /\ prov.bleState = "PoweredOff"
    /\ adapter = "PoweredOn"
    /\ prov.nav = 0

(***************************************************************************)
(* Claims about the outcome of Step 2.                                     *)
(***************************************************************************)
\* the state query of invocation i resolves in this step
queryResolves(i) ==
    /\ mounted = "yes"
    /\ checks[i].pc = "query"
    /\ checks'[i].pc \in {"done", "wait"}

\* C24: when the state query of Step 2 resolves with PoweredOn the step is
\* Pass at once and nothing is subscribed; otherwise the step subscribes,
\* is told the current state first, and becomes Pass when the subscription
\* delivers PoweredOn and not before; run with no handle the step is Fail
\* with the 'no BleManager' line and no state query is issued.
C24_StateOutcome ==
    [][ /\ \A i \in DOMAIN checks :
              /\ (queryResolves(i) /\ adapter = "PoweredOn") =>
                    /\ status'["state"] = "pass"
                    /\ checks'[i].pc = "done"
                    /\ checks'[i].sub = "none"
              /\ (queryResolves(i) /\ adapter # "PoweredOn") =>
                    /\ status'["state"] = status["state"]
                    /\ checks'[i].sub = "active"
                    /\ checks'[i].queue = <<adapter>>
              /\ (mounted = "yes" /\ StateChange(i)) =>
                    IF Head(checks[i].queue) = "PoweredOn"
                    THEN status'["state"] = "pass"
                    ELSE status'["state"] = status["state"]
        /\ ((runCheckState \/ AutoCheckState) /\ bleManagerRef = 0) =>
              /\ status'["state"] = "fail"
              /\ logs'["state"] = Append(logs["state"], <<"ERROR: No BleManager">>)
              /\ checks' = checks ]_vars

\* C24 witness: Step 2 is Pass through the subscription, after the adapter
\* was switched on during the wait
C24_Witness ==
    /\ mounted = "yes"
    /\ status["state"] = "pass"
    /\ adapterChanges = 1
    /\ \E i \in DOMAIN checks :
          checks[i].pc = "wait" /\ checks[i].sub = "removed" /\ checks[i].removes = 1

(***************************************************************************)
(* Step 2 under fairness: every timer that is armed fires, every state     *)
(* query settles, every notification queued is delivered and every         *)
(* teardown completes.  What the user and the adapter do is left free.     *)
(***************************************************************************)
FairState ==
    /\ WF_vars(AutoCheckState)
    /\ \A i \in 1..MaxChecks :
          /\ WF_vars(i \in DOMAIN checks /\ (StateResolve(i) \/ StateReject(i)))
          /\ WF_vars(i \in DOMAIN checks /\ StateChange(i))
          /\ WF_vars(i \in DOMAIN checks /\ StateTimeout(i))
    /\ \A h \in 1..MaxHandles : WF_vars(h \in HandleIds /\ DestroyComplete(h))

SpecStateFair == InitState /\ [][NextState]_vars /\ FairState

\* C25: a step that is Running while the screen is mounted is eventually
\* no longer Running (or the screen has been left).
C25_RunningEnds ==
    \A k \in StepKeys :
        (mounted = "yes" /\ status[k] = "running")
            ~> (mounted # "yes" \/ status[k] # "running")


\* a callback, timer or promise completion of an invocation that is no
\* longer the latest of its step runs
staleCompletion(k) ==
    \/ /\ k = "state"
       /\ \E i \in DOMAIN checks :
             /\ i < Len(checks)
             /\ StateResolve(i) \/ StateReject(i) \/ StateChange(i) \/ StateTimeout(i)
    \/ /\ k \in ScanKeys
       /\ \E i \in DOMAIN scans :
             /\ scans[i].step = k
             /\ ~latestOfStep(i)
             /\ \/ ScanTimer(i)
                \/ ScanError(i)
                \/ \E ad \in Advertisements : ScanDevice(i, ad)
    \/ /\ k = "connect"
       /\ \E i \in DOMAIN connects :
             /\ i < Len(connects)
             /\ \/ \E mtu \in NegotiatedMtus : ConnectResolve(i, mtu)
                \/ \E hasCode \in BOOLEAN : ConnectReject(i, hasCode)

\* C26: once a step was triggered again, what is left of its earlier
\* invocation (callbacks, timers, promise completions) writes neither the
\* step's status nor its log.
C26_OnlyLatestWrites ==
    [][\A k \in StepKeys :
          staleCompletion(k) =>
              /\ status'[k] = status[k]
              /\ logs'[k] = logs[k]]_vars


(***************************************************************************)
(* Steps 5 to 7 and the Disconnect button together with a re-run of Step 1 *)
(* (the Create / Recreate button), from the state in which Steps 1 to 3    *)
(* have passed, against a peripheral that offers the whole service.        *)
(***************************************************************************)
InitRerun == Scanned /\ gatt = <<FullService>>
NextRerun ==
    \/ \E ok \in BOOLEAN : runCreateManager(ok)
    \/ NextSteps567
SpecRerun == InitRerun /\ [][NextRerun]_vars

\* step k's status, log or device list is written
changed(k) ==
    \/ status'[k] # status[k]
    \/ logs'[k] # logs[k]
    \/ k \in ScanKeys /\ devices'[k] # devices[k]

\* the await of the Disconnect button returns without throwing
disconnectCompletes ==
    \E j \in DOMAIN cancels : cancels[j].src = "button" /\ CancelResolve(j)

\* C27: triggering or re-triggering a step writes only that step's status,
\* log and device list; a step that writes the slots of more than one step
\* is the completion of a Disconnect, and that one resets exactly Steps 5,
\* 6 and 7 (status Pending, log empty) and nothing of Steps 1 to 4.
C27_Frame ==
    [][ /\ \A k \in StepKeys :
              triggers(k) => \A o \in StepKeys \ {k} : ~changed(o)
        /\ (\E k1, k2 \in StepKeys : k1 # k2 /\ changed(k1) /\ changed(k2))
              => disconnectCompletes
        /\ (disconnectCompletes /\ mounted = "yes") =>
              /\ \A k \in {"connect", "discover", "validate"} :
                    status'[k] = "pending" /\ logs'[k] = <<>>
              /\ \A o \in {"create", "state", "scan", "filteredScan"} :
                    ~changed(o) ]_vars

\* Step 1 was re-run, Steps 5 to 7 were run and a Disconnect has reset them
C27_Witness ==
    /\ mounted = "yes"
    /\ Len(handles) = 2
    /\ validates # <<>>
    /\ \E j \in DOMAIN cancels : cancels[j].src = "button" /\ cancels[j].pc = "resolved"
    /\ \A k \in {"connect", "discover", "validate"} :
          status[k] = "pending" /\ logs[k] = <<>>
    /\ status["scan"] = "pass"


(***************************************************************************)
(* Claims about the device list of a scan step.                            *)
(***************************************************************************)
\* no two entries of the list have the same id
keyUnique(list) ==
    \A a, b \in DOMAIN list : list[a].id = list[b].id => a = b

\* the entry lines 220-225 and 276-281 store for an advertisement
entryOf(ad) ==
    [id |-> ad.id, name |-> ad.name, rssi |-> ad.rssi,
     serviceUUIDs |-> ad.serviceUUIDs]

\* C28: the device list of a scan step never holds an id twice; a result
\* with an id not yet in the list is appended at its end, a result with an
\* id already in the list changes neither the list nor the stored entry;
\* starting a scan of the step empties its list.
C28_DeviceList ==
    [][ /\ \A k \in ScanKeys : keyUnique(devices'[k])
        /\ \A i \in DOMAIN scans, ad \in Advertisements :
              (mounted = "yes" /\ ScanDevice(i, ad)) =>
                  LET k == scans[i].step
                  IN IF \E n \in DOMAIN devices[k] : devices[k][n].id = ad.id
                     THEN devices'[k] = devices[k] /\ scans'[i].seen = scans[i].seen
                     ELSE devices'[k] = Append(devices[k], entryOf(ad))
        /\ \A k \in ScanKeys :
              (runScan(k) /\ bleManagerRef # 0) => devices'[k] = <<>> ]_vars


\* C29: a re-run of Step 1 while a Connection is recorded leaves no
\* Connection recorded and Step 5 not Pass.
C29_RerunDropsConnection ==
    [][((\E ok \in BOOLEAN : runCreateManager(ok)) /\ connectedDeviceRef # 0) =>
          /\ connectedDeviceRef' = 0
          /\ status'["connect"] # "pass"]_vars


\* C30: a scan whose window is open is still running after the other scan
\* step (or its own step) is started and after the timer of another scan
\* has fired; and the timer of a scan whose step was re-run since does not
\* write the status of that step.
C30_OwnWindow ==
    [][\A j \in DOMAIN scans :
          /\ ( /\ Listening(j)
               /\ scans[j].timer = "armed"
               /\ \/ \E k \in ScanKeys : runScan(k)
                  \/ \E i \in DOMAIN scans \ {j} : ScanTimer(i) )
                => Listening(j)'
          /\ (ScanTimer(j) /\ ~latestOfStep(j))
                => status'[scans[j].step] = status[scans[j].step]]_vars


\* C31: while the screen is mounted (an unmounted screen has no status: React
\* drops the updates and the refs are all that is left), whenever Step 5 is
\* Pass a Connection is recorded.
C31_PassMeansConnection ==
    (mounted = "yes" /\ status["connect"] = "pass") => connectedDeviceRef # 0

\* Step 5 is Pass again on a second Connection, opened while the Disconnect
\* of the first was completing
C31_Witness ==
    /\ mounted = "yes"
    /\ status["connect"] = "pass"
    /\ connectedDeviceRef = 2
    /\ connects[1].pc = "closed"
    /\ \E j \in DOMAIN cancels : cancels[j].src = "button" /\ cancels[j].pc = "resolved"


\* C32: destroy() is called at most once on the temporary manager of the
\* provisioning screen and its state subscription is removed at most once;
\* and once the screen has been left, each has happened exactly once.
C32_TempDestroyedOnce ==
    prov.mgr # 0 =>
        /\ handles[prov.mgr].destroys <= 1
        /\ prov.subRemoves <= 1
        /\ prov.screen = "gone" =>
              handles[prov.mgr].destroys = 1 /\ prov.subRemoves = 1


(***************************************************************************)
(* Claims about what is left of a handle after destroy() was called on it. *)
(***************************************************************************)
\* destroy() has been called on the handle (by teardown or by a re-run of
\* Step 1)
destroyCalled(h) == handles[h].st # "alive"

\* C33: a scan timer or state-wait timer that fires after destroy() was
\* called on the handle it was created under stops no scan on that handle,
\* removes no subscription of it and writes no step's status or log.
C33_NothingAfterDestroy ==
    [][ /\ \A i \in DOMAIN scans :
              (ScanTimer(i) /\ destroyCalled(scans[i].mgr)) =>
                  /\ status' = status
                  /\ logs' = logs
                  /\ handles' = handles
        /\ \A i \in DOMAIN checks :
              (StateTimeout(i) /\ destroyCalled(checks[i].mgr)) =>
                  /\ status' = status
                  /\ logs' = logs
                  /\ checks'[i].removes = checks[i].removes ]_vars

====
